---- MODULE Spec2Model ----
(***************************************************************************)
(* State-synchronisation logic of the single-page client in src/prueba2/   *)
(* App.js: the React component App, its five asynchronous operations and   *)
(* the remote API they talk to.                                            *)
(*                                                                         *)
(* Each async function is split at its `await`: the part that runs on the  *)
(* click (or on mount) issues a request and captures the closure of the    *)
(* render it belongs to; the continuation runs when the response arrives.  *)
(* Arrays are JavaScript objects with identity, so the task arrays live in *)
(* a heap and the `tasks` state and every closure hold a reference.        *)
(* Text is a sequence of characters. A render that throws unmounts the     *)
(* root (there is no error boundary), after which nothing more happens.    *)
(***************************************************************************)
EXTENDS Naturals, Sequences, FiniteSets

\* ------------------------------------------------------------------ bounds
MaxRequests == 1       \* Spec: POST and PUT requests the user starts in a session
MaxTaskRequests == 3   \* TaskSpec: POST /tasks and PUT /tasks/{id} requests started

\* ------------------------------------------------------------------ values
Blank == <<" ">>
Word == <<"a">>
Padded == <<" ", "a">>
\* What the user types into a field (an untouched or cleared field is empty).
TaskInputs == {Blank, Padded}
UsernameInputs == {Blank, Word}
EmailInputs == {Word}
PasswordInputs == {Word}
Views == {"tasks", "users"}

\* The `resp` of a request no response has been produced for.
NoTask == [id |-> 0, description |-> <<>>, completed |-> FALSE]
NoUser == [id |-> 0, username |-> <<>>, email |-> <<>>, password |-> <<>>]

\* A JavaScript value held in the `users` state: an array of User, or the
\* object parsed from the body of a non-success response.
ArrayOf(items) == [kind |-> "array", items |-> items]
ErrorBody == [kind |-> "object", items |-> <<>>]

\* The collections the remote API holds when the page is opened.
StoredTask1 == [id |-> 1, description |-> Word, completed |-> FALSE]
StoredTask2 == [id |-> 2, description |-> Padded, completed |-> TRUE]
StoredUser1 == [id |-> 1, username |-> Word, email |-> Word, password |-> Word]
InitialTaskStore == <<StoredTask1, StoredTask2>>
InitialUserStore == <<StoredUser1>>

\* ------------------------------------------------------------- pure helpers
IsSpace(c) == c = " "

RECURSIVE TrimStart(_)
TrimStart(s) == IF s # <<>> /\ IsSpace(Head(s)) THEN TrimStart(Tail(s)) ELSE s

RECURSIVE TrimEnd(_)
TrimEnd(s) ==
    IF s # <<>> /\ IsSpace(s[Len(s)]) THEN TrimEnd(SubSeq(s, 1, Len(s) - 1)) ELSE s

\* String.prototype.trim
trim(s) == TrimEnd(TrimStart(s))

\* Variant: the description is tested without trimming.
TaskInputRejectedUntrimmed(description) == description = <<>>

\* !newTaskDescription.trim()
TaskInputRejected(description) == trim(description) = <<>>

\* !newUsername.trim() || !newUserEmail.trim() || !newUserPassword.trim()
UserInputRejected(username, email, password) ==
    \/ trim(username) = <<>>
    \/ trim(email) = <<>>
    \/ trim(password) = <<>>

\* Variant: the two branches of the conditional are swapped.
MapUpdatedSwapped(list, updatedTask) ==
    [i \in 1..Len(list) |-> IF list[i].id = updatedTask.id THEN list[i] ELSE updatedTask]

\* tasks.map(task => task.id === updatedTask.id ? updatedTask : task)
MapUpdated(list, updatedTask) ==
    [i \in 1..Len(list) |-> IF list[i].id = updatedTask.id THEN updatedTask ELSE list[i]]

\* if (!response.ok) throw ... in fetchTasks
FetchTasksOk(outcome) == outcome = "ok"

\* if (!response.ok) throw ... in handleAddTask
AddTaskOk(outcome) == outcome = "ok"

\* if (response.ok) ... else ... in handleToggleComplete
ToggleOk(outcome) == outcome = "ok"

\* Variant: the status is not tested, as in fetchUsers; any JSON body passes.
CreateUserOkUnchecked(outcome) == outcome \in {"ok", "err"}

\* if (!response.ok) { ...; return; } in handleCreateUser
CreateUserOk(outcome) == outcome = "ok"

\* [...prevUsers, newUser]
SpreadAppend(prevUsers, newUser) == ArrayOf(Append(prevUsers.items, newUser))

\* The users branch of the render: `users.length === 0 ? ... : users.map(...)`
\* throws a TypeError when `users` is not an array; with no error boundary
\* React then unmounts the whole tree.
RenderThrows(view, loading, u) == view = "users" /\ ~loading /\ u.kind # "array"

\* ------------------------------------------------------------------- state
VARIABLES
    mounted,             \* the two mount effects have run
    crashed,             \* a render threw and the root was unmounted
    heap,                \* heap[ref]: content of the task array with that identity
    tasks,               \* useState `tasks`: a reference into heap
    newTaskDescription,
    taskLoading,
    users,
    newUsername,
    newUserEmail,
    newUserPassword,
    userLoading,
    currentView,
    fetchTasksReqs,      \* GET /tasks in flight
    addTaskReqs,         \* POST /tasks in flight
    toggleReqs,          \* PUT /tasks/{id} in flight
    fetchUsersReqs,      \* GET /users in flight
    createUserReqs,      \* POST /users in flight
    srvTasks,            \* the remote task collection
    srvUsers,            \* the remote user collection
    issued,              \* requests issued so far, per operation
    last,                \* history: the handler step just taken
    delivered,           \* history: entities carried by success responses
    appliedToggles       \* history: PUT responses applied with success

taskVars == <<heap, tasks, newTaskDescription, taskLoading>>
userVars == <<users, newUsername, newUserEmail, newUserPassword, userLoading>>
netVars == <<fetchTasksReqs, addTaskReqs, toggleReqs, fetchUsersReqs, createUserReqs>>
srvVars == <<srvTasks, srvUsers>>
vars == <<mounted, crashed, taskVars, userVars, currentView, netVars, srvVars,
          issued, last, delivered, appliedToggles>>

\* `last` names the handler step just taken (its operation, the number of the
\* request and how the request ended); any other step sets it to Idle.
Step(op, n, outcome) == [op |-> op, n |-> n, outcome |-> outcome]
Idle == Step("idle", 0, "none")

\* The outcomes a continuation can see for request r. Once the remote API has
\* carried the request out (phase "ok") its reply is the success response,
\* unless the fetch is rejected (network failure, "neterr"). A request not
\* carried out can be refused with a non-success status, which leaves the
\* remote collections alone: with a JSON body ("err") or with a body that is
\* not JSON ("errtext").
Outcomes(r) == IF r.phase = "ok" THEN {"ok", "neterr"} ELSE {"err", "errtext", "neterr"}

Init ==
    /\ mounted = FALSE
    /\ crashed = FALSE
    /\ heap = << <<>> >>
    /\ tasks = 1
    /\ newTaskDescription = <<>>
    /\ taskLoading = FALSE
    /\ users = ArrayOf(<<>>)
    /\ newUsername = <<>>
    /\ newUserEmail = <<>>
    /\ newUserPassword = <<>>
    /\ userLoading = FALSE
    /\ currentView = "tasks"
    /\ fetchTasksReqs = {}
    /\ addTaskReqs = {}
    /\ toggleReqs = {}
    /\ fetchUsersReqs = {}
    /\ createUserReqs = {}
    /\ srvTasks = InitialTaskStore
    /\ srvUsers = InitialUserStore
    /\ issued = [fetchTasks |-> 0, addTask |-> 0, toggle |-> 0,
                 fetchUsers |-> 0, createUser |-> 0]
    /\ last = Idle
    /\ delivered = [tasks |-> {}, users |-> {}]
    /\ appliedToggles = {}

Live == mounted /\ ~crashed

\* ------------------------------------------------------------ mount effects
\* useEffect(() => { fetchTasks(); }, []) and useEffect(() => { fetchUsers(); }, [])
\* with the synchronous head of each fetch: set the loading flag, send the GET.
Mount ==
    /\ ~mounted
    /\ mounted' = TRUE
    /\ taskLoading' = TRUE
    /\ userLoading' = TRUE
    /\ fetchTasksReqs' = {[n |-> 1, phase |-> "sent", data |-> <<>>]}
    /\ fetchUsersReqs' = {[n |-> 1, phase |-> "sent", data |-> <<>>]}
    /\ issued' = [issued EXCEPT !.fetchTasks = 1, !.fetchUsers = 1]
    /\ last' = Step("mount", 0, "none")
    /\ UNCHANGED <<crashed, heap, tasks, newTaskDescription, users, newUsername,
                   newUserEmail, newUserPassword, currentView, addTaskReqs,
                   toggleReqs, createUserReqs, srvVars, delivered,
                   appliedToggles>>

\* -------------------------------------------------------------- form inputs
\* onChange={(e) => setNewTaskDescription(e.target.value)}
SetNewTaskDescription(v) ==
    /\ Live /\ currentView = "tasks"
    /\ newTaskDescription' = v
    /\ last' = Idle
    /\ UNCHANGED <<mounted, crashed, heap, tasks, taskLoading, userVars, currentView,
                   netVars, srvVars, issued, delivered, appliedToggles>>

\* onChange={(e) => setNewUsername(e.target.value)}
SetNewUsername(v) ==
    /\ Live /\ currentView = "users"
    /\ newUsername' = v
    /\ last' = Idle
    /\ UNCHANGED <<mounted, crashed, taskVars, users, newUserEmail, newUserPassword,
                   userLoading, currentView, netVars, srvVars, issued, delivered,
                   appliedToggles>>

\* onChange={(e) => setNewUserEmail(e.target.value)}
SetNewUserEmail(v) ==
    /\ Live /\ currentView = "users"
    /\ newUserEmail' = v
    /\ last' = Idle
    /\ UNCHANGED <<mounted, crashed, taskVars, users, newUsername, newUserPassword,
                   userLoading, currentView, netVars, srvVars, issued, delivered,
                   appliedToggles>>

\* onChange={(e) => setNewUserPassword(e.target.value)}
SetNewUserPassword(v) ==
    /\ Live /\ currentView = "users"
    /\ newUserPassword' = v
    /\ last' = Idle
    /\ UNCHANGED <<mounted, crashed, taskVars, users, newUsername, newUserEmail,
                   userLoading, currentView, netVars, srvVars, issued, delivered,
                   appliedToggles>>

\* onClick={() => setCurrentView('tasks')} / setCurrentView('users'); the
\* render that follows shows the other section.
SetCurrentView(v) ==
    /\ Live /\ currentView # v
    /\ currentView' = v
    /\ crashed' = RenderThrows(v, userLoading, users)
    /\ last' = Idle
    /\ UNCHANGED <<mounted, taskVars, userVars, netVars, srvVars, issued, delivered,
                   appliedToggles>>

\* ------------------------------------------------------------------- tasks
\* The remote API answers GET /tasks with the collection it holds.
ServerFetchTasks(r) ==
    /\ r \in fetchTasksReqs /\ r.phase = "sent"
    /\ fetchTasksReqs' = (fetchTasksReqs \ {r}) \cup
           {[r EXCEPT !.phase = "ok", !.data = srvTasks]}
    /\ last' = Idle
    /\ UNCHANGED <<mounted, crashed, taskVars, userVars, currentView, addTaskReqs,
                   toggleReqs, fetchUsersReqs, createUserReqs, srvVars, issued,
                   delivered, appliedToggles>>

\* fetchTasks after `await fetch(...)`: setTasks(data) on success, the catch
\* otherwise, and setTaskLoading(false) in the finally.
FetchTasksResponse(r, outcome) ==
    /\ Live /\ r \in fetchTasksReqs /\ outcome \in Outcomes(r)
    /\ IF FetchTasksOk(outcome)
       THEN /\ heap' = Append(heap, r.data)
            /\ tasks' = Len(heap) + 1
            /\ delivered' = [delivered EXCEPT
                   !.tasks = @ \cup {r.data[i] : i \in 1..Len(r.data)}]
       ELSE UNCHANGED <<heap, tasks, delivered>>
    /\ taskLoading' = FALSE
    /\ fetchTasksReqs' = fetchTasksReqs \ {r}
    /\ last' = Step("fetchTasks", r.n, outcome)
    /\ UNCHANGED <<mounted, crashed, newTaskDescription, userVars, currentView,
                   addTaskReqs, toggleReqs, fetchUsersReqs, createUserReqs, srvVars,
                   issued, appliedToggles>>

\* handleAddTask up to its `await fetch(...)`: the emptiness check, then the
\* POST with the description as typed. The continuation keeps the `tasks`
\* of the render the clicked handler belongs to.
HandleAddTask ==
    /\ Live /\ currentView = "tasks"
    /\ IF TaskInputRejected(newTaskDescription)
       THEN /\ last' = Step("handleAddTask", 0, "rejected")
            /\ UNCHANGED <<addTaskReqs, issued>>
       ELSE /\ addTaskReqs' = addTaskReqs \cup
                   {[n |-> issued.addTask + 1, phase |-> "sent", closure |-> tasks,
                     description |-> newTaskDescription, resp |-> NoTask]}
            /\ issued' = [issued EXCEPT !.addTask = @ + 1]
            /\ last' = Step("handleAddTask", issued.addTask + 1, "sent")
    /\ UNCHANGED <<mounted, crashed, taskVars, userVars, currentView, fetchTasksReqs,
                   toggleReqs, fetchUsersReqs, createUserReqs, srvVars, delivered,
                   appliedToggles>>

\* The remote API answers POST /tasks: it stores a Task with a fresh id and
\* completed = false and returns it.
ServerAddTask(r) ==
    /\ r \in addTaskReqs /\ r.phase = "sent"
    /\ LET created == [id |-> Len(srvTasks) + 1, description |-> r.description,
                       completed |-> FALSE]
       IN /\ srvTasks' = Append(srvTasks, created)
          /\ addTaskReqs' = (addTaskReqs \ {r}) \cup
                 {[r EXCEPT !.phase = "ok", !.resp = created]}
    /\ last' = Idle
    /\ UNCHANGED <<mounted, crashed, taskVars, userVars, currentView, fetchTasksReqs,
                   toggleReqs, fetchUsersReqs, createUserReqs, srvUsers, issued,
                   delivered, appliedToggles>>

\* handleAddTask after `await fetch(...)`: tasks.push(newTask) mutates the
\* captured array in place, setTasks(tasks) makes it the state, and the input
\* is cleared; a non-success status or a rejected fetch goes to the catch.
AddTaskResponse(r, outcome) ==
    /\ Live /\ r \in addTaskReqs /\ outcome \in Outcomes(r)
    /\ IF AddTaskOk(outcome)
       THEN /\ heap' = [heap EXCEPT ![r.closure] = Append(@, r.resp)]
            /\ tasks' = r.closure
            /\ newTaskDescription' = <<>>
            /\ delivered' = [delivered EXCEPT !.tasks = @ \cup {r.resp}]
       ELSE UNCHANGED <<heap, tasks, newTaskDescription, delivered>>
    /\ addTaskReqs' = addTaskReqs \ {r}
    /\ last' = Step("handleAddTask.response", r.n, outcome)
    /\ UNCHANGED <<mounted, crashed, taskLoading, userVars, currentView,
                   fetchTasksReqs, toggleReqs, fetchUsersReqs, createUserReqs, srvVars,
                   issued, appliedToggles>>

\* handleToggleComplete(task.id, task.completed) up to its `await fetch(...)`,
\* clicked on entry i of the rendered list (shown when the tasks view is
\* selected, taskLoading is false and the list is not empty). An entry pushed
\* in place by handleAddTask is on screen from the next render on; arrays
\* only grow in place, so what a rendered entry shows is what the array holds.
HandleToggleComplete(i) ==
    /\ Live /\ currentView = "tasks" /\ ~taskLoading
    /\ i \in 1..Len(heap[tasks])
    /\ LET task == heap[tasks][i]
       IN toggleReqs' = toggleReqs \cup
              {[n |-> issued.toggle + 1, phase |-> "sent", closure |-> tasks,
                taskId |-> task.id, completed |-> ~task.completed, resp |-> NoTask,
                overlap |-> {q.n : q \in {p \in toggleReqs : p.taskId = task.id}}]}
    /\ issued' = [issued EXCEPT !.toggle = @ + 1]
    /\ last' = Step("handleToggleComplete", issued.toggle + 1, "sent")
    /\ UNCHANGED <<mounted, crashed, taskVars, userVars, currentView, fetchTasksReqs,
                   addTaskReqs, fetchUsersReqs, createUserReqs, srvVars, delivered,
                   appliedToggles>>

\* The remote API answers PUT /tasks/{id}: it sets `completed` on the stored
\* Task and returns it.
ServerToggle(r) ==
    /\ r \in toggleReqs /\ r.phase = "sent"
    /\ \E i \in 1..Len(srvTasks) :
          /\ srvTasks[i].id = r.taskId
          /\ LET updated == [srvTasks[i] EXCEPT !.completed = r.completed]
             IN /\ srvTasks' = [srvTasks EXCEPT ![i] = updated]
                /\ toggleReqs' = (toggleReqs \ {r}) \cup
                       {[r EXCEPT !.phase = "ok", !.resp = updated]}
    /\ last' = Idle
    /\ UNCHANGED <<mounted, crashed, taskVars, userVars, currentView, fetchTasksReqs,
                   addTaskReqs, fetchUsersReqs, createUserReqs, srvUsers, issued,
                   delivered, appliedToggles>>

\* handleToggleComplete after `await fetch(...)`: on response.ok the captured
\* `tasks` is mapped into a new array, which becomes the state; the else
\* branch (non-success status) and the catch (rejected fetch, or a body that
\* is not JSON) only log.
ToggleResponse(r, outcome) ==
    /\ Live /\ r \in toggleReqs /\ outcome \in Outcomes(r)
    /\ IF ToggleOk(outcome)
       THEN /\ heap' = Append(heap, MapUpdated(heap[r.closure], r.resp))
            /\ tasks' = Len(heap) + 1
            /\ delivered' = [delivered EXCEPT !.tasks = @ \cup {r.resp}]
            /\ appliedToggles' = appliedToggles \cup
                   {[n |-> r.n, taskId |-> r.taskId, overlap |-> r.overlap,
                     resp |-> r.resp]}
       ELSE UNCHANGED <<heap, tasks, delivered, appliedToggles>>
    /\ toggleReqs' = toggleReqs \ {r}
    /\ last' = Step("handleToggleComplete.response", r.n, outcome)
    /\ UNCHANGED <<mounted, crashed, newTaskDescription, taskLoading, userVars,
                   currentView, fetchTasksReqs, addTaskReqs, fetchUsersReqs,
                   createUserReqs, srvVars, issued>>

\* ------------------------------------------------------------------- users
\* The remote API answers GET /users with the collection it holds.
ServerFetchUsers(r) ==
    /\ r \in fetchUsersReqs /\ r.phase = "sent"
    /\ fetchUsersReqs' = (fetchUsersReqs \ {r}) \cup
           {[r EXCEPT !.phase = "ok", !.data = srvUsers]}
    /\ last' = Idle
    /\ UNCHANGED <<mounted, crashed, taskVars, userVars, currentView, fetchTasksReqs,
                   addTaskReqs, toggleReqs, createUserReqs, srvVars, issued,
                   delivered, appliedToggles>>

\* `const data = await response.json()` in fetchUsers, which reads
\* response.ok nowhere: the collection of a success response, or the object
\* in the JSON body of a non-success response.
UsersBodyParsed(outcome) == outcome \in {"ok", "err"}
UsersBody(r, outcome) == IF outcome = "ok" THEN ArrayOf(r.data) ELSE ErrorBody

\* fetchUsers after `await fetch(...)`: setUsers(await response.json()), the
\* catch when the fetch or the parse throws, setUserLoading(false) in the
\* finally; the updates are rendered in one batch.
FetchUsersResponse(r, outcome) ==
    /\ Live /\ r \in fetchUsersReqs /\ outcome \in Outcomes(r)
    /\ users' = IF UsersBodyParsed(outcome) THEN UsersBody(r, outcome) ELSE users
    /\ delivered' = IF outcome = "ok"
                    THEN [delivered EXCEPT
                            !.users = @ \cup {r.data[i] : i \in 1..Len(r.data)}]
                    ELSE delivered
    /\ userLoading' = FALSE
    /\ crashed' = RenderThrows(currentView, userLoading', users')
    /\ fetchUsersReqs' = fetchUsersReqs \ {r}
    /\ last' = Step("fetchUsers", r.n, outcome)
    /\ UNCHANGED <<mounted, taskVars, newUsername, newUserEmail, newUserPassword,
                   currentView, fetchTasksReqs, addTaskReqs, toggleReqs,
                   createUserReqs, srvVars, issued, appliedToggles>>

\* handleCreateUser up to its `await fetch(...)`: the three emptiness checks,
\* then the POST with the fields as typed.
HandleCreateUser ==
    /\ Live /\ currentView = "users"
    /\ IF UserInputRejected(newUsername, newUserEmail, newUserPassword)
       THEN /\ last' = Step("handleCreateUser", 0, "rejected")
            /\ UNCHANGED <<createUserReqs, issued>>
       ELSE /\ createUserReqs' = createUserReqs \cup
                   {[n |-> issued.createUser + 1, phase |-> "sent",
                     username |-> newUsername, email |-> newUserEmail,
                     password |-> newUserPassword, resp |-> NoUser]}
            /\ issued' = [issued EXCEPT !.createUser = @ + 1]
            /\ last' = Step("handleCreateUser", issued.createUser + 1, "sent")
    /\ UNCHANGED <<mounted, crashed, taskVars, userVars, currentView, fetchTasksReqs,
                   addTaskReqs, toggleReqs, fetchUsersReqs, srvVars, delivered,
                   appliedToggles>>

\* The remote API answers POST /users: it stores a User with a fresh id and
\* returns it.
ServerCreateUser(r) ==
    /\ r \in createUserReqs /\ r.phase = "sent"
    /\ LET created == [id |-> Len(srvUsers) + 1, username |-> r.username,
                       email |-> r.email, password |-> r.password]
       IN /\ srvUsers' = Append(srvUsers, created)
          /\ createUserReqs' = (createUserReqs \ {r}) \cup
                 {[r EXCEPT !.phase = "ok", !.resp = created]}
    /\ last' = Idle
    /\ UNCHANGED <<mounted, crashed, taskVars, userVars, currentView, fetchTasksReqs,
                   addTaskReqs, toggleReqs, fetchUsersReqs, srvTasks, issued,
                   delivered, appliedToggles>>

\* handleCreateUser after `await fetch(...)`. A non-success status (alert and
\* return) and the catch leave the state alone. On success the updater
\* prevUsers => [...prevUsers, newUser] is queued, the three inputs are
\* cleared and fetchUsers() starts: it sets userLoading and sends a GET.
\* The updater runs in the render; spreading a value that is not iterable
\* throws there.
CreateUserResponse(r, outcome) ==
    /\ Live /\ r \in createUserReqs /\ outcome \in Outcomes(r)
    /\ IF CreateUserOk(outcome)
       THEN /\ users' = IF users.kind = "array" THEN SpreadAppend(users, r.resp)
                        ELSE users
            /\ crashed' = (users.kind # "array")
            /\ newUsername' = <<>>
            /\ newUserEmail' = <<>>
            /\ newUserPassword' = <<>>
            /\ userLoading' = TRUE
            /\ fetchUsersReqs' = fetchUsersReqs \cup
                   {[n |-> issued.fetchUsers + 1, phase |-> "sent",
                     data |-> <<>>]}
            /\ issued' = [issued EXCEPT !.fetchUsers = @ + 1]
            /\ delivered' = [delivered EXCEPT !.users = @ \cup {r.resp}]
       ELSE UNCHANGED <<userVars, crashed, fetchUsersReqs, issued, delivered>>
    /\ createUserReqs' = createUserReqs \ {r}
    /\ last' = Step("handleCreateUser.response", r.n, outcome)
    /\ UNCHANGED <<mounted, taskVars, currentView, fetchTasksReqs, addTaskReqs,
                   toggleReqs, srvVars, appliedToggles>>

\* ------------------------------------------------------------ specification
AllOutcomes == {"ok", "err", "errtext", "neterr"}

\* The remote API carries out a request in flight.
ServerSteps ==
    \/ \E r \in fetchTasksReqs : ServerFetchTasks(r)
    \/ \E r \in addTaskReqs : ServerAddTask(r)
    \/ \E r \in toggleReqs : ServerToggle(r)
    \/ \E r \in fetchUsersReqs : ServerFetchUsers(r)
    \/ \E r \in createUserReqs : ServerCreateUser(r)

\* Spec: the whole page. The user starts at most MaxRequests POST or PUT
\* requests.
Within == issued.addTask + issued.toggle + issued.createUser < MaxRequests

Next ==
    \/ Mount
    \/ \E v \in TaskInputs : SetNewTaskDescription(v)
    \/ \E v \in UsernameInputs : SetNewUsername(v)
    \/ \E v \in EmailInputs : SetNewUserEmail(v)
    \/ \E v \in PasswordInputs : SetNewUserPassword(v)
    \/ \E v \in Views : SetCurrentView(v)
    \/ (Within \/ TaskInputRejected(newTaskDescription)) /\ HandleAddTask
    \/ \E i \in 1..Len(heap[tasks]) : Within /\ HandleToggleComplete(i)
    \/ (Within \/ UserInputRejected(newUsername, newUserEmail, newUserPassword))
          /\ HandleCreateUser
    \/ ServerSteps
    \/ \E r \in fetchTasksReqs, o \in AllOutcomes : FetchTasksResponse(r, o)
    \/ \E r \in addTaskReqs, o \in AllOutcomes : AddTaskResponse(r, o)
    \/ \E r \in toggleReqs, o \in AllOutcomes : ToggleResponse(r, o)
    \/ \E r \in fetchUsersReqs, o \in AllOutcomes : FetchUsersResponse(r, o)
    \/ \E r \in createUserReqs, o \in AllOutcomes : CreateUserResponse(r, o)

Spec == Init /\ [][Next]_vars

\* TaskSpec: a session spent in the tasks view, in which the user starts up
\* to MaxTaskRequests POST /tasks and PUT /tasks/{id} requests (GET /users
\* stays pending).
WithinTasks == issued.addTask + issued.toggle < MaxTaskRequests

TaskNext ==
    \/ Mount
    \/ \E v \in TaskInputs : SetNewTaskDescription(v)
    \/ (WithinTasks \/ TaskInputRejected(newTaskDescription)) /\ HandleAddTask
    \/ \E i \in 1..Len(heap[tasks]) : WithinTasks /\ HandleToggleComplete(i)
    \/ \E r \in fetchTasksReqs : ServerFetchTasks(r)
    \/ \E r \in addTaskReqs : ServerAddTask(r)
    \/ \E r \in toggleReqs : ServerToggle(r)
    \/ \E r \in fetchTasksReqs, o \in AllOutcomes : FetchTasksResponse(r, o)
    \/ \E r \in addTaskReqs, o \in AllOutcomes : AddTaskResponse(r, o)
    \/ \E r \in toggleReqs, o \in AllOutcomes : ToggleResponse(r, o)

TaskSpec == Init /\ [][TaskNext]_vars

\* ------------------------------------------------------------------ claims
\* The local task list: the array the `tasks` state refers to.
TaskList == heap[tasks]

ToggleReq(n) == CHOOSE r \in toggleReqs : r.n = n
AddTaskReq(n) == CHOOSE r \in addTaskReqs : r.n = n
CreateUserReq(n) == CHOOSE r \in createUserReqs : r.n = n

Applied(op) == last'.op = op /\ last'.outcome = "ok"
Failed(op) == last'.op = op /\ last'.outcome \in {"err", "errtext", "neterr"}

\* C1: when a successful ToggleComplete response is applied, the task list
\* after differs from the list before only at the entries whose id is the
\* returned Task's id: same length, every other entry the same value at the
\* same position, in every interleaving.
C1_ToggleChangesOnlyItsEntry ==
    [][Applied("handleToggleComplete.response") =>
         LET updatedTask == ToggleReq(last'.n).resp
         IN /\ Len(TaskList') = Len(TaskList)
            /\ \A i \in 1..Len(TaskList) :
                  TaskList[i].id # updatedTask.id => TaskList'[i] = TaskList[i]]_vars

\* C2: when the successful response of task Create is applied, the task list
\* becomes the list held immediately before with the returned Task appended,
\* in every interleaving.
C2_CreateAppendsToCurrentList ==
    [][Applied("handleAddTask.response") =>
         TaskList' = Append(TaskList, AddTaskReq(last'.n).resp)]_vars

\* C3: a task Create whose description is empty after trimming, and a user
\* Create with any of the three fields empty after trimming, issues no
\* request and leaves the task list, the user list and every form field as
\* they were.
NothingTouched ==
    UNCHANGED <<heap, tasks, users, newTaskDescription, newUsername, newUserEmail,
                newUserPassword, netVars, issued, srvVars>>

C3_ValidationFailureNoEffect ==
    [][/\ (last'.op = "handleAddTask" /\ trim(newTaskDescription) = <<>>)
            => NothingTouched
       /\ (/\ last'.op = "handleCreateUser"
           /\ \/ trim(newUsername) = <<>>
              \/ trim(newUserEmail) = <<>>
              \/ trim(newUserPassword) = <<>>)
            => NothingTouched]_vars

\* A user Create was just rejected for a whitespace-only username, the other
\* two fields filled in and the user list not empty.
C3_Witness ==
    /\ last = Step("handleCreateUser", 0, "rejected")
    /\ newUsername = Blank /\ newUserEmail = Word /\ newUserPassword = Word
    /\ users.kind = "array" /\ users.items # <<>>

\* C4: a task List() or user List() that ends in a network failure or in a
\* non-success response leaves the local collection as it was.
C4_FailedListNoChange ==
    [][(Failed("fetchTasks") \/ Failed("fetchUsers")) =>
         /\ tasks' = tasks /\ heap' = heap
         /\ users' = users]_vars

\* C5: when a task Create, a ToggleComplete or a user Create ends in a
\* network failure or a non-success response, the task list and the user
\* list are the same after the failure is handled as before, and no fetch
\* of a collection is started.
C5_FailedMutationNoChange ==
    [][(\/ Failed("handleAddTask.response")
        \/ Failed("handleToggleComplete.response")
        \/ Failed("handleCreateUser.response")) =>
         /\ tasks' = tasks /\ heap' = heap
         /\ users' = users
         /\ fetchTasksReqs' = fetchTasksReqs /\ fetchUsersReqs' = fetchUsersReqs
         /\ issued' = issued
         /\ taskLoading' = taskLoading /\ userLoading' = userLoading]_vars

\* A user Create was just refused with a non-success status while the user
\* list held an entry.
C5_Witness ==
    /\ last.op = "handleCreateUser.response" /\ last.outcome = "err"
    /\ users.kind = "array" /\ users.items # <<>>

\* C6: when the successful response of user Create is applied, the user list
\* becomes the list held before with the returned User appended, the three
\* input fields are empty, and exactly one fetch of the users is started.
C6_CreateUserAppendsClearsRefetches ==
    [][Applied("handleCreateUser.response") =>
         /\ users' = ArrayOf(Append(users.items, CreateUserReq(last'.n).resp))
         /\ newUsername' = <<>> /\ newUserEmail' = <<>> /\ newUserPassword' = <<>>
         /\ issued'.fetchUsers = issued.fetchUsers + 1
         /\ Cardinality(fetchUsersReqs') = Cardinality(fetchUsersReqs) + 1]_vars

\* C7: when two ToggleComplete requests for the same task were in flight
\* together and both succeeded, then once the second response to arrive is
\* applied, the local entry of that task is the Task that response carried,
\* whichever request was issued first.
Overlapped(a, b) == a.n \in b.overlap \/ b.n \in a.overlap

C7_LastArrivalWins ==
    [][Applied("handleToggleComplete.response") =>
         LET r == ToggleReq(last'.n)
         IN (\E a \in appliedToggles : a.taskId = r.taskId /\ Overlapped(a, r)) =>
              /\ \E i \in 1..Len(TaskList') : TaskList'[i].id = r.taskId
              /\ \A i \in 1..Len(TaskList') :
                    TaskList'[i].id = r.taskId => TaskList'[i] = r.resp]_vars

\* The response just applied belongs to the request issued first; the
\* response of a later request for the same task, in flight together with
\* it and carrying the other `completed` value, was applied before; the
\* local entry now holds the value that arrived last.
C7_Witness ==
    /\ last.op = "handleToggleComplete.response" /\ last.outcome = "ok"
    /\ \E a, b \in appliedToggles :
          /\ b.n = last.n /\ a.n > b.n
          /\ a.taskId = b.taskId /\ Overlapped(a, b)
          /\ a.resp.completed # b.resp.completed
          /\ \E i \in 1..Len(TaskList) : TaskList[i] = b.resp

\* C8: the task list and the user list hold only entities the server
\* delivered in a success response; the body of a non-success response never
\* becomes the content of a list.
C8_OnlyDeliveredEntities ==
    /\ \A i \in 1..Len(TaskList) : TaskList[i] \in delivered.tasks
    /\ users.kind = "array"
    /\ \A i \in 1..Len(users.items) : users.items[i] \in delivered.users

\* C9: the `completed` value of a task in the local list changes only in a
\* step that applies a successful ToggleComplete response for that task's id
\* or a successful List response.
CompletedOf(list, id) == {list[i].completed : i \in {j \in 1..Len(list) : list[j].id = id}}

C9_CompletedChangesOnlyOnConfirmation ==
    [][\A i \in 1..Len(TaskList) :
         LET id == TaskList[i].id
         IN (/\ CompletedOf(TaskList', id) # {}
             /\ CompletedOf(TaskList', id) # CompletedOf(TaskList, id)) =>
              \/ Applied("fetchTasks")
              \/ /\ Applied("handleToggleComplete.response")
                 /\ ToggleReq(last'.n).resp.id = id]_vars

\* C10: while the page is up, a collection's loading flag is true exactly
\* when at least one List() request for that collection is in flight.
C10_LoadingIffFetchInFlight ==
    (mounted /\ ~crashed) =>
        /\ taskLoading = (fetchTasksReqs # {})
        /\ userLoading = (fetchUsersReqs # {})

====
